---- MODULE Spec2Model ----
(***************************************************************************)
(* The module/chunk/chunk-group graph of the bundler: Module (lib/Module.js)*)
(* and Chunk (lib/Chunk.js), with the collaborators they call              *)
(* (GraphHelpers, ChunkGroup, SortableSet) modelled from their contracts.  *)
(***************************************************************************)
EXTENDS Integers, Sequences, FiniteSets, TLC

\* ------------------------------------------------------------------ universe

Modules == {"m1", "m2", "m3"}
Chunks == {"c1", "c2", "c3"}
Groups == {"g1", "g2", "g3"}

\* "no value": undefined / null / a falsy name
None == "none"

\* a chunk without a name (undefined, or the empty string: both are falsy)
NoName == <<>>

\* how many mutating calls one behaviour makes
MaxOps == 4

\* how many reasons one behaviour adds to a module
MaxReasons == 2

\* how many queries one behaviour makes on a graph drawn as input
MaxQueries == 1

\* Module.identifier(): a unique string per module; compared with < and >
ModuleIdentifier(m) == CASE m = "m1" -> 1 [] m = "m2" -> 2 [] OTHER -> 3

\* Module.size(): a non-negative integer per module
ModuleSize(m) == CASE m = "m1" -> 1 [] m = "m2" -> 2 [] OTHER -> 4

\* Module.id: the integer id given to a module when the compilation is sealed
ModuleId(m) == CASE m = "m1" -> 2 [] m = "m2" -> 10 [] OTHER -> 1

\* Chunk.id: the integer id given to a chunk when the compilation is sealed
ChunkId(c) == CASE c = "c1" -> 1 [] c = "c2" -> 2 [] OTHER -> 3

\* Chunk.hash and Chunk.renderedHash
ChunkHash(c) == <<"hash", c>>
ChunkRenderedHash(c) == <<"renderedHash", c>>

VARIABLES
    chunkModules,   \* Chunk._modules : insertion-ordered set of modules
    moduleChunks,   \* Module._chunks : set of chunks
    chunkGroups,    \* Chunk._groups  : insertion-ordered set of groups
    groupChunks,    \* ChunkGroup.chunks
    entryModule,    \* Chunk.entryModule
    modulesSizeCache, \* Chunk._modules' memoized getModulesSize: <<>> or <<sum>>
    name,           \* Chunk.name
    parents,        \* ChunkGroup parents (fixed once the groups are built)
    initial,        \* ChunkGroup.isInitial() (fixed once the groups are built)
    reasons,        \* Module.reasons : sequence of originating modules
    used,           \* Module.used of module m1, the one asked about its exports
    usedExports,    \* Module.usedExports of m1
    buildMeta,      \* Module.buildMeta of m1
    walk,           \* the group traversal in progress, one loop iteration at a time
    last,           \* the last call made and what it returned
    pre,            \* the graph as it was when the last call was made
    nOps            \* calls made so far

vars == <<chunkModules, moduleChunks, chunkGroups, groupChunks, entryModule,
          modulesSizeCache, name, parents, initial, reasons, used, usedExports,
          buildMeta, walk, last, pre, nOps>>

\* ------------------------------------------------------------ set helpers

SeqToSet(s) == {s[i] : i \in 1..Len(s)}

\* Set.prototype.has / add / delete on an insertion-ordered set
SetHas(s, x) == \E i \in 1..Len(s) : s[i] = x
SetAdd(s, x) == IF SetHas(s, x) THEN s ELSE Append(s, x)
SetDelete(s, x) == SelectSeq(s, LAMBDA y : y # x)

\* some enumeration of a finite set (iteration order of an unordered collection)
RECURSIVE SetToSeq(_)
SetToSeq(S) == IF S = {} THEN <<>>
               ELSE LET x == CHOOSE y \in S : TRUE IN <<x>> \o SetToSeq(S \ {x})

\* The mutable graph as one value, so that handlers can be composed.
Graph == [cm |-> chunkModules, mc |-> moduleChunks, cg |-> chunkGroups,
          gc |-> groupChunks, nm |-> name, em |-> entryModule,
          sz |-> modulesSizeCache]

Install(g) ==
    /\ chunkModules' = g.cm
    /\ moduleChunks' = g.mc
    /\ chunkGroups' = g.cg
    /\ groupChunks' = g.gc
    /\ name' = g.nm
    /\ entryModule' = g.em
    /\ modulesSizeCache' = g.sz

\* ------------------------------------------------- Module <-> Chunk edges

\* Chunk.containsModule
ContainsModule(g, c, m) == SetHas(g.cm[c], m)

\* Module.isInChunk
IsInChunk(g, m, c) == c \in g.mc[m]

\* SortableSet add / delete / clear on Chunk._modules drop the memoized values
InvalidateCache(g, c) == [g EXCEPT !.sz[c] = <<>>]

\* Chunk.addModule that leaves the memoized values of _modules in place
ChunkAddModuleKeepsCache(g, c, m) ==
    IF ~SetHas(g.cm[c], m) THEN [g EXCEPT !.cm[c] = SetAdd(@, m)] ELSE g

\* Chunk.addModule
ChunkAddModule(g, c, m) ==
    IF ~SetHas(g.cm[c], m)
    THEN InvalidateCache([g EXCEPT !.cm[c] = SetAdd(@, m)], c)
    ELSE g

\* Module.addChunk
ModuleAddChunk(g, m, c) ==
    IF c \in g.mc[m] THEN g ELSE [g EXCEPT !.mc[m] = @ \cup {c}]

RECURSIVE ChunkRemoveModule(_, _, _), ModuleRemoveChunk(_, _, _)

\* Chunk.removeModule without the cascade into the module
ChunkRemoveModuleNoCascade(g, c, m) ==
    IF SetHas(g.cm[c], m)
    THEN InvalidateCache([g EXCEPT !.cm[c] = SetDelete(@, m)], c)
    ELSE InvalidateCache(g, c)

\* Chunk.removeModule
ChunkRemoveModule(g, c, m) ==
    IF SetHas(g.cm[c], m)
    THEN ModuleRemoveChunk(InvalidateCache([g EXCEPT !.cm[c] = SetDelete(@, m)], c), m, c)
    ELSE InvalidateCache(g, c)

\* Module.removeChunk
ModuleRemoveChunk(g, m, c) ==
    IF c \in g.mc[m]
    THEN ChunkRemoveModule([g EXCEPT !.mc[m] = @ \ {c}], c, m)
    ELSE g

\* GraphHelpers.connectChunkAndModule
ConnectChunkAndModule(g, c, m) ==
    IF c \notin g.mc[m] THEN ChunkAddModule(ModuleAddChunk(g, m, c), c, m) ELSE g

\* GraphHelpers.disconnectChunkAndModule
DisconnectChunkAndModule(g, c, m) ==
    ModuleRemoveChunk(ChunkRemoveModule(g, c, m), m, c)

\* Chunk.moveModule that forgets to connect the module to the other chunk
MoveModuleOnlyDisconnects(g, c, m, otherChunk) == DisconnectChunkAndModule(g, c, m)

\* Chunk.moveModule
MoveModule(g, c, m, otherChunk) ==
    ConnectChunkAndModule(DisconnectChunkAndModule(g, c, m), otherChunk, m)

\* ---------------------------------------------------- Chunk <-> Group edges

\* Chunk.isInGroup
IsInGroup(g, c, chunkGroup) == SetHas(g.cg[c], chunkGroup)

\* Chunk.addGroup
ChunkAddGroup(g, c, chunkGroup) ==
    IF SetHas(g.cg[c], chunkGroup) THEN g ELSE [g EXCEPT !.cg[c] = SetAdd(@, chunkGroup)]

\* ChunkGroup.pushChunk
GroupPushChunk(g, chunkGroup, c) == [g EXCEPT !.gc[chunkGroup] = @ \cup {c}]

\* ChunkGroup.replaceChunk
GroupReplaceChunk(g, chunkGroup, oldChunk, newChunk) ==
    IF oldChunk \in g.gc[chunkGroup]
    THEN [g EXCEPT !.gc[chunkGroup] = (@ \ {oldChunk}) \cup {newChunk}]
    ELSE g

\* GraphHelpers.connectChunkGroupAndChunk
ConnectChunkGroupAndChunk(g, chunkGroup, c) ==
    IF c \notin g.gc[chunkGroup]
    THEN ChunkAddGroup(GroupPushChunk(g, chunkGroup, c), c, chunkGroup)
    ELSE g

\* Chunk.isInitial: the first owning group decides
IsInitial(g, c) == IF Len(g.cg[c]) > 0 THEN initial[g.cg[c][1]] ELSE FALSE

\* Chunk.hasEntryModule
HasEntryModule(g, c) == g.em[c] # None

\* Chunk.isEmpty
IsEmpty(g, c) == Len(g.cm[c]) = 0

\* queue.push(x) for every x of a collection: a list takes an element again
QueueAddAllAgain(queue, xs) == queue \o xs

\* queue.add(x) for every x of a collection: a Set keeps each element once
RECURSIVE QueueAddAll(_, _)
QueueAddAll(queue, xs) ==
    IF xs = <<>> THEN queue ELSE QueueAddAll(SetAdd(queue, Head(xs)), Tail(xs))

\* isAvailable (in Chunk.canBeIntegrated): the loop over the growing queue
RECURSIVE IsAvailableLoop(_, _, _, _)
IsAvailableLoop(g, a, queue, i) ==
    IF i > Len(queue) THEN TRUE
    ELSE LET chunkGroup == queue[i] IN
         IF IsInGroup(g, a, chunkGroup) THEN IsAvailableLoop(g, a, queue, i + 1)
         ELSE IF initial[chunkGroup] THEN FALSE
         ELSE IsAvailableLoop(g, a, QueueAddAll(queue, SetToSeq(parents[chunkGroup])), i + 1)

IsAvailable(g, a, b) == IsAvailableLoop(g, a, g.cg[b], 1)

\* Chunk.canBeIntegrated that always asks whether otherChunk's groups are
\* available to this chunk, whichever of the two is the initial one
CanBeIntegratedDirectional(g, this, otherChunk) ==
    IF IsInitial(g, this) # IsInitial(g, otherChunk)
    THEN IsAvailable(g, this, otherChunk)
    ELSE IF HasEntryModule(g, this) \/ HasEntryModule(g, otherChunk) THEN FALSE
    ELSE TRUE

\* Chunk.canBeIntegrated
CanBeIntegrated(g, this, otherChunk) ==
    IF IsInitial(g, this) # IsInitial(g, otherChunk)
    THEN IF IsInitial(g, this) THEN IsAvailable(g, this, otherChunk)
         ELSE IF IsInitial(g, otherChunk) THEN IsAvailable(g, otherChunk, this)
         ELSE FALSE
    ELSE IF HasEntryModule(g, this) \/ HasEntryModule(g, otherChunk) THEN FALSE
    ELSE TRUE

\* s < t for strings given as sequences of character codes
LexLess(s, t) ==
    \E k \in 0..Len(s) :
        /\ k <= Len(t)
        /\ \A i \in 1..k : s[i] = t[i]
        /\ \/ k = Len(s) /\ k < Len(t)
           \/ k < Len(s) /\ k < Len(t) /\ s[k + 1] < t[k + 1]

\* Chunk.integrate, lines 215-217: move every module of otherChunk into this
RECURSIVE MoveAll(_, _, _, _)
MoveAll(g, mods, otherChunk, this) ==
    IF mods = <<>> THEN g
    ELSE MoveAll(MoveModule(g, otherChunk, Head(mods), this), Tail(mods), otherChunk, this)

\* Chunk.integrate, lines 220-223: repoint every group of otherChunk to this
RECURSIVE RepointAll(_, _, _, _)
RepointAll(g, grps, otherChunk, this) ==
    IF grps = <<>> THEN g
    ELSE RepointAll(ChunkAddGroup(GroupReplaceChunk(g, Head(grps), otherChunk, this),
                                  this, Head(grps)),
                    Tail(grps), otherChunk, this)

\* Chunk.integrate, lines 226-231: keep the shorter, then the smaller, name
IntegrateName(g, this, otherChunk) ==
    LET a == g.nm[this]
        b == g.nm[otherChunk]
    IN IF a # NoName /\ b # NoName
       THEN IF Len(a) # Len(b)
            THEN [g EXCEPT !.nm[this] = IF Len(a) < Len(b) THEN a ELSE b]
            ELSE [g EXCEPT !.nm[this] = IF LexLess(a, b) THEN a ELSE b]
       ELSE g

\* Chunk.integrate without the canBeIntegrated test
IntegrateUnchecked(g, this, otherChunk) ==
    LET g1 == MoveAll(g, g.cm[otherChunk], otherChunk, this)
        g2 == InvalidateCache([g1 EXCEPT !.cm[otherChunk] = <<>>], otherChunk)
        g3 == RepointAll(g2, g2.cg[otherChunk], otherChunk, this)
        g4 == [g3 EXCEPT !.cg[otherChunk] = <<>>]
    IN IntegrateName(g4, this, otherChunk)

\* Chunk.integrate that merges without asking canBeIntegrated
IntegrateAlways(g, this, otherChunk) ==
    [ret |-> TRUE, g |-> IntegrateUnchecked(g, this, otherChunk)]

\* Chunk.integrate: what it returns (ret) and the graph it leaves (g)
Integrate(g, this, otherChunk) ==
    IF ~CanBeIntegrated(g, this, otherChunk) THEN [ret |-> FALSE, g |-> g]
    ELSE [ret |-> TRUE, g |-> IntegrateUnchecked(g, this, otherChunk)]

\* ChunkGroup.removeChunk: the group drops the chunk from its own chunk list
GroupRemoveChunk(g, chunkGroup, c) == [g EXCEPT !.gc[chunkGroup] = @ \ {c}]

\* Chunk.remove, lines 196-198: module.removeChunk(this) for a copy of _modules
RECURSIVE RemoveFromModules(_, _, _)
RemoveFromModules(g, mods, c) ==
    IF mods = <<>> THEN g
    ELSE RemoveFromModules(ModuleRemoveChunk(g, Head(mods), c), Tail(mods), c)

\* Chunk.remove, lines 199-201: chunkGroup.removeChunk(this) for every group
RECURSIVE RemoveFromGroups(_, _, _)
RemoveFromGroups(g, grps, c) ==
    IF grps = <<>> THEN g
    ELSE RemoveFromGroups(GroupRemoveChunk(g, Head(grps), c), Tail(grps), c)

\* Chunk.remove that detaches the modules only
RemoveModulesOnly(g, c) == RemoveFromModules(g, g.cm[c], c)

\* Chunk.remove
Remove(g, c) == RemoveFromGroups(RemoveFromModules(g, g.cm[c], c), g.cg[c], c)

\* ChunkGroup.insertChunk: the group takes the chunk as a sibling of `before`
GroupInsertChunk(g, chunkGroup, c, before) == [g EXCEPT !.gc[chunkGroup] = @ \cup {c}]

\* Chunk.split that inserts the new chunk into the groups without registering
\* the groups with it
RECURSIVE SplitInsertOnly(_, _, _, _)
SplitInsertOnly(g, grps, this, newChunk) ==
    IF grps = <<>> THEN g
    ELSE SplitInsertOnly(GroupInsertChunk(g, Head(grps), newChunk, this),
                         Tail(grps), this, newChunk)

\* Chunk.split, lines 237-240: the loop over the groups of this chunk
RECURSIVE SplitLoop(_, _, _, _)
SplitLoop(g, grps, this, newChunk) ==
    IF grps = <<>> THEN g
    ELSE SplitLoop(ChunkAddGroup(GroupInsertChunk(g, Head(grps), newChunk, this),
                                 newChunk, Head(grps)),
                   Tail(grps), this, newChunk)

\* Chunk.split
Split(g, this, newChunk) == SplitLoop(g, g.cg[this], this, newChunk)

\* ------------------------------------------------------------- cost model

DefaultChunkOverhead == 10000
DefaultEntryChunkMultiplicator == 10

\* The options an optimizer passes: chunkOverhead may be absent (hasOverhead
\* false); an entryChunkMultiplicator of 0 stands for an absent or falsy one.
OptionsSet == [hasOverhead : BOOLEAN, chunkOverhead : {5},
               entryChunkMultiplicator : {0, 3}]

RECURSIVE SumSizes(_)
\* getModulesSize
SumSizes(mods) == IF mods = <<>> THEN 0 ELSE ModuleSize(Head(mods)) + SumSizes(Tail(mods))

\* SortableSet.getFromUnorderedCache(getModulesSize): the memoized value if
\* there is one, else the computed value, which is then memoized
GetFromUnorderedCache(g, c) ==
    IF g.sz[c] # <<>> THEN [val |-> g.sz[c][1], g |-> g]
    ELSE [val |-> SumSizes(g.cm[c]), g |-> [g EXCEPT !.sz[c] = <<SumSizes(g.cm[c])>>]]

\* Chunk.modulesSize: the value it returns
ModulesSize(g, c) == GetFromUnorderedCache(g, c).val

\* Chunk.addMultiplierAndOverhead
AddMultiplierAndOverhead(g, c, size, options) ==
    LET overhead == IF options.hasOverhead THEN options.chunkOverhead
                    ELSE DefaultChunkOverhead
        multiplicator == IF IsInitial(g, c)
                         THEN (IF options.entryChunkMultiplicator # 0
                               THEN options.entryChunkMultiplicator
                               ELSE DefaultEntryChunkMultiplicator)
                         ELSE 1
    IN size * multiplicator + overhead

\* Chunk.size
Size(g, c, options) == AddMultiplierAndOverhead(g, c, ModulesSize(g, c), options)

\* Chunk.integratedSize: false (isNumber false), or a number (value)
IntegratedSize(g, this, otherChunk, options) ==
    IF ~CanBeIntegrated(g, this, otherChunk) THEN [isNumber |-> FALSE, value |-> 0]
    ELSE LET integratedModulesSize ==
                 ModulesSize(g, this)
                 + SumSizes(SelectSeq(g.cm[otherChunk],
                                      LAMBDA m : ~SetHas(g.cm[this], m)))
         IN [isNumber |-> TRUE,
             value |-> AddMultiplierAndOverhead(g, this, integratedModulesSize, options)]

\* ---------------------------------------------------------------- ordering

\* sortByIdentifier
SortByIdentifier(a, b) ==
    IF ModuleIdentifier(a) > ModuleIdentifier(b) THEN 1
    ELSE IF ModuleIdentifier(a) < ModuleIdentifier(b) THEN 0 - 1
    ELSE 0

\* The decimal string of a non-negative integer, as its digits
RECURSIVE DecimalString(_)
DecimalString(n) == IF n < 10 THEN <<n>> ELSE DecimalString(n \div 10) \o <<n % 10>>

\* The order a sort call uses: the comparator sortByIdentifier on modules, or,
\* for a sort() without comparator, the order of the elements' strings
SortLess(order, x, y) ==
    IF order = "sortByIdentifier" THEN SortByIdentifier(x, y) < 0
    ELSE LexLess(DecimalString(x), DecimalString(y))

\* Array.prototype.sort (stable): x goes before the first element it is less than
RECURSIVE InsertSorted(_, _, _)
InsertSorted(sorted, x, order) ==
    IF sorted = <<>> THEN <<x>>
    ELSE IF SortLess(order, x, Head(sorted)) THEN <<x>> \o sorted
    ELSE <<Head(sorted)>> \o InsertSorted(Tail(sorted), x, order)

RECURSIVE ArraySort(_, _)
ArraySort(arr, order) ==
    IF arr = <<>> THEN <<>>
    ELSE InsertSorted(ArraySort(SubSeq(arr, 1, Len(arr) - 1), order), arr[Len(arr)], order)

\* SortableSet.sort() on Chunk._modules: reorder by sortByIdentifier
SortModules(g, c) == [g EXCEPT !.cm[c] = ArraySort(@, "sortByIdentifier")]

\* Chunk.compareTo, lines 168-178: walk both iterators
RECURSIVE CompareLoop(_, _, _)
CompareLoop(a, b, i) ==
    IF i > Len(a) THEN 0
    ELSE LET aModuleIdentifier == ModuleIdentifier(a[i])
             bModuleIdentifier == ModuleIdentifier(b[i])
         IN IF aModuleIdentifier > bModuleIdentifier THEN 0 - 1
            ELSE IF aModuleIdentifier < bModuleIdentifier THEN 1
            ELSE CompareLoop(a, b, i + 1)

\* Chunk.compareTo, lines 166-178, on the module sets as they are
CompareModules(g, this, otherChunk) ==
    IF Len(g.cm[this]) > Len(g.cm[otherChunk]) THEN 0 - 1
    ELSE IF Len(g.cm[this]) < Len(g.cm[otherChunk]) THEN 1
    ELSE CompareLoop(g.cm[this], g.cm[otherChunk], 1)

\* Chunk.compareTo that does not sort the two module sets first
CompareToUnsorted(g, this, otherChunk) ==
    [val |-> CompareModules(g, this, otherChunk), g |-> g]

\* Chunk.compareTo: what it returns (val) and the graph it leaves (g)
CompareTo(g, this, otherChunk) ==
    LET sorted == SortModules(SortModules(g, this), otherChunk)
    IN [val |-> CompareModules(sorted, this, otherChunk), g |-> sorted]

\* ------------------------------------------------------------ accessibility

\* Module.isAccessibleInChunkGroup, lines 210-223: the loop over the growing
\* queue. cg is the group being visited, chunkGroup the group the call was given.
RECURSIVE IsAccessibleLoop(_, _, _, _, _, _)
IsAccessibleLoop(g, module, chunkGroup, ignoreChunk, queue, i) ==
    IF i > Len(queue) THEN TRUE
    ELSE LET cg == queue[i] IN
         IF \E chunk \in g.gc[cg] : chunk # ignoreChunk /\ ContainsModule(g, chunk, module)
         THEN IsAccessibleLoop(g, module, chunkGroup, ignoreChunk, queue, i + 1)
         ELSE IF initial[chunkGroup] THEN FALSE
         ELSE IsAccessibleLoop(g, module, chunkGroup, ignoreChunk,
                               QueueAddAll(queue, SetToSeq(parents[chunkGroup])), i + 1)

\* Module.isAccessibleInChunkGroup
IsAccessibleInChunkGroup(g, module, chunkGroup, ignoreChunk) ==
    IsAccessibleLoop(g, module, chunkGroup, ignoreChunk, <<chunkGroup>>, 1)

\* Module.isAccessibleInChunk: the group-level call is made without ignoreChunk
IsAccessibleInChunk(g, module, chunk, ignoreChunk) ==
    \A chunkGroup \in SeqToSet(g.cg[chunk]) :
        IsAccessibleInChunkGroup(g, module, chunkGroup, None)

\* Module.hasReasonForChunk, lines 230-237: the loop over the reasons `rs`,
\* each given by its originating module (None for a reason without one).
\* Reading chunksIterable of a null originating module throws a TypeError.
RECURSIVE HasReasonLoop(_, _, _, _, _)
HasReasonLoop(g, module, chunk, rs, i) ==
    IF i > Len(rs) THEN "false"
    ELSE LET fromModule == rs[i]
         IN IF fromModule = None THEN "throws"
            ELSE IF \E originChunk \in g.mc[fromModule] :
                        ~IsAccessibleInChunk(g, module, originChunk, chunk)
                 THEN "true"
                 ELSE HasReasonLoop(g, module, chunk, rs, i + 1)

\* Module.hasReasonForChunk: "true", "false", or "throws"
HasReasonForChunk(g, module, chunk) ==
    HasReasonLoop(g, module, chunk, reasons[module], 1)

\* ------------------------------------------------------ whole-graph queries

\* ChunkGroup.childrenIterable: the groups that have this group as a parent
Children(chunkGroup) == {h \in Groups : chunkGroup \in parents[h]}

\* Chunk.getChunkModuleMaps, lines 353-359 (and getChunkMaps, lines 326-332):
\* collect the chunks of every group reached over child links
RECURSIVE CollectChunks(_, _, _, _, _)
CollectChunks(g, queue, i, chunks, includeInitial) ==
    IF i > Len(queue) THEN chunks
    ELSE LET chunkGroup == queue[i]
             collected == IF includeInitial \/ ~initial[chunkGroup]
                          THEN QueueAddAll(chunks, SetToSeq(g.gc[chunkGroup]))
                          ELSE chunks
         IN CollectChunks(g, QueueAddAll(queue, SetToSeq(Children(chunkGroup))), i + 1,
                          collected, includeInitial)

\* Chunk.getChunkModuleMaps, lines 363-372: the ids of the modules of a chunk
\* that pass filterFn (the modules in `passing`), in iteration order
RECURSIVE PassingIds(_, _)
PassingIds(mods, passing) ==
    IF mods = <<>> THEN <<>>
    ELSE IF Head(mods) \in passing
         THEN <<ModuleId(Head(mods))>> \o PassingIds(Tail(mods), passing)
         ELSE PassingIds(Tail(mods), passing)

\* Chunk.getChunkModuleMaps: the id map it returns, keyed by chunk
GetChunkModuleMaps(g, this, includeInitial, passing) ==
    LET chunks == SeqToSet(CollectChunks(g, g.cg[this], 1, <<>>, includeInitial))
    IN [chunk \in {c \in chunks : PassingIds(g.cm[c], passing) # <<>>} |->
            ArraySort(PassingIds(g.cm[chunk], passing), "default")]

\* map[key] = value on an object used as a map
MapPut(map, key, value) ==
    [k \in DOMAIN map \cup {key} |-> IF k = key THEN value ELSE map[k]]

\* Chunk.getChunkMaps, lines 334-338: fill both maps from the collected chunks
RECURSIVE FillChunkMaps(_, _, _, _)
FillChunkMaps(g, chunks, realHash, maps) ==
    IF chunks = <<>> THEN maps
    ELSE LET chunk == Head(chunks)
             chunkHashMap == MapPut(maps.hash, ChunkId(chunk),
                                    IF realHash THEN ChunkHash(chunk)
                                    ELSE ChunkRenderedHash(chunk))
             chunkNameMap == IF g.nm[chunk] # NoName
                             THEN MapPut(maps.name, ChunkId(chunk), g.nm[chunk])
                             ELSE maps.name
         IN FillChunkMaps(g, Tail(chunks), realHash,
                          [hash |-> chunkHashMap, name |-> chunkNameMap])

\* Chunk.getChunkMaps that collects the chunks of initial groups whatever
\* includeInitial says
GetChunkMapsAlwaysInitial(g, this, includeInitial, realHash) ==
    FillChunkMaps(g, CollectChunks(g, g.cg[this], 1, <<>>, TRUE), realHash,
                  [hash |-> <<>>, name |-> <<>>])

\* Chunk.getChunkMaps: the two maps it returns, keyed by chunk id
GetChunkMaps(g, this, includeInitial, realHash) ==
    FillChunkMaps(g, CollectChunks(g, g.cg[this], 1, <<>>, includeInitial), realHash,
                  [hash |-> <<>>, name |-> <<>>])

\* ------------------------------------------------------------------ calls

\* a.op(b, c) returned ret (a boolean) or val (any other value)
Call(op, a, b, c, ret, val) ==
    [op |-> op, a |-> a, b |-> b, c |-> c, ret |-> ret, val |-> val]

\* No traversal is running: nothing queued, nothing visited
NoWalk ==
    [fn |-> "none", a |-> None, b |-> None, c |-> None, includeInitial |-> FALSE,
     realHash |-> FALSE, filterFn |-> {}, filterChunkFn |-> {}, queue |-> <<>>,
     i |-> 1, visited |-> <<>>, acc |-> <<>>, done |-> TRUE, ret |-> TRUE, val |-> 0]

\* One call: `g` is the graph it leaves, `before` the graph it is remembered with.
Step(call, before, g) ==
    /\ nOps' = nOps + 1
    /\ last' = call
    /\ pre' = before
    /\ Install(g)
    /\ UNCHANGED <<parents, initial, reasons, used, usedExports, buildMeta, walk>>

\* ------------------------------------------------------------ export usage

\* an array of export names, or a value that is not an array
ArrayOf(items) == [kind |-> "array", items |-> items]
NotArray(kind) == [kind |-> kind, items |-> <<>>]

\* what isUsed returns: true, false, the export name, or a mangled identifier
\* (or it throws a TypeError)
Returned(kind, exportName, idx) == [kind |-> kind, name |-> exportName, idx |-> idx]

\* Array.prototype.indexOf, counting from 0; -1 when absent
IndexOf(arr, x) ==
    IF \E i \in 1..Len(arr) : arr[i] = x
    THEN (CHOOSE i \in 1..Len(arr) : arr[i] = x /\ \A j \in 1..(i - 1) : arr[j] # x) - 1
    ELSE 0 - 1

\* Template.numberToIdentifer: the short identifier standing for a position
NumberToIdentifer(n) == Returned("identifier", "", n)

\* Module.buildMeta = undefined
UndefinedBuildMeta ==
    [defined |-> FALSE, exportsType |-> "none", providedExports |-> NotArray("null")]

\* Module.isProvided: null when providedExports is not an array; reading
\* providedExports of an undefined buildMeta throws
IsProvided(meta, exportName) ==
    IF ~meta.defined THEN "throws"
    ELSE IF meta.providedExports.kind # "array" THEN "null"
    ELSE IF SetHas(meta.providedExports.items, exportName) THEN "true" ELSE "false"

\* Module.isUsed that mangles by the position among the provided exports
IsUsedByProvidedPosition(u, ue, meta, exportName) ==
    IF exportName = "" THEN Returned(IF u # "false" THEN "true" ELSE "false", "", 0)
    ELSE IF u = "null" \/ ue.kind = "null" THEN Returned("name", exportName, 0)
    ELSE IF u # "true" THEN Returned("false", "", 0)
    ELSE IF ue.kind = "false" THEN Returned("false", "", 0)
    ELSE IF ue.kind = "true" THEN Returned("name", exportName, 0)
    ELSE LET idx == IndexOf(meta.providedExports.items, exportName)
         IN IF IndexOf(ue.items, exportName) < 0 THEN Returned("false", "", 0)
            ELSE IF IsProvided(meta, exportName) = "throws" THEN Returned("throws", "", 0)
            ELSE IF IsProvided(meta, exportName) = "true"
                    /\ \/ meta.exportsType = "namespace"
                       \/ meta.exportsType = "named" /\ ~SetHas(ue.items, "default")
                 THEN NumberToIdentifer(idx)
                 ELSE Returned("name", exportName, 0)

\* Module.isUsed; a falsy exportName is written ""
IsUsed(u, ue, meta, exportName) ==
    IF exportName = "" THEN Returned(IF u # "false" THEN "true" ELSE "false", "", 0)
    ELSE IF u = "null" \/ ue.kind = "null" THEN Returned("name", exportName, 0)
    ELSE IF u # "true" THEN Returned("false", "", 0)
    ELSE IF ue.kind = "false" THEN Returned("false", "", 0)
    ELSE IF ue.kind = "true" THEN Returned("name", exportName, 0)
    ELSE LET idx == IndexOf(ue.items, exportName)
         IN IF idx < 0 THEN Returned("false", "", 0)
            ELSE IF IsProvided(meta, exportName) = "throws" THEN Returned("throws", "", 0)
            ELSE IF IsProvided(meta, exportName) = "true"
                    /\ \/ meta.exportsType = "namespace"
                       \/ meta.exportsType = "named" /\ ~SetHas(ue.items, "default")
                 THEN NumberToIdentifer(idx)
                 ELSE Returned("name", exportName, 0)

\* a module fresh from its constructor
NoUsage == [used |-> "null", usedExports |-> NotArray("null"),
            buildMeta |-> UndefinedBuildMeta]

EmptyGraph ==
    [cm |-> [c \in Chunks |-> <<>>],
     mc |-> [m \in Modules |-> {}],
     cg |-> [c \in Chunks |-> <<>>],
     gc |-> [g \in Groups |-> {}],
     nm |-> [c \in Chunks |-> CASE c = "c1" -> <<1, 2>> [] c = "c2" -> <<1, 1>> [] OTHER -> NoName],
     em |-> [c \in Chunks |-> None],
     sz |-> [c \in Chunks |-> <<>>]]

\* The state after construction: no edges yet; two entry points g1 and g3, and
\* the split point g2 below g1.
Init ==
    /\ chunkModules = EmptyGraph.cm
    /\ moduleChunks = EmptyGraph.mc
    /\ chunkGroups = EmptyGraph.cg
    /\ groupChunks = EmptyGraph.gc
    /\ name = EmptyGraph.nm
    /\ entryModule = EmptyGraph.em
    /\ modulesSizeCache = EmptyGraph.sz
    /\ parents = [g \in Groups |-> IF g = "g2" THEN {"g1"} ELSE {}]
    /\ initial = [g \in Groups |-> g # "g2"]
    /\ reasons = [m \in Modules |-> <<>>]
    /\ used = NoUsage.used
    /\ usedExports = NoUsage.usedExports
    /\ buildMeta = NoUsage.buildMeta
    /\ walk = NoWalk
    /\ last = Call("init", None, None, None, TRUE, 0)
    /\ pre = EmptyGraph
    /\ nOps = 0

Connect ==
    \E c \in Chunks, m \in Modules :
        LET g == ConnectChunkAndModule(Graph, c, m)
        IN /\ nOps < MaxOps
           /\ Step(Call("connectChunkAndModule", None, None, None, TRUE, 0), g, g)

Disconnect ==
    \E c \in Chunks, m \in Modules :
        LET g == DisconnectChunkAndModule(Graph, c, m)
        IN /\ nOps < MaxOps
           /\ Step(Call("disconnectChunkAndModule", None, None, None, TRUE, 0), g, g)

Move ==
    \E c \in Chunks, o \in Chunks, m \in Modules :
        LET g == MoveModule(Graph, c, m, o)
        IN /\ nOps < MaxOps
           /\ Step(Call("moveModule", None, None, None, TRUE, 0), g, g)

RemoveModule ==
    \E c \in Chunks, m \in Modules :
        LET g == ChunkRemoveModule(Graph, c, m)
        IN /\ nOps < MaxOps
           /\ Step(Call("removeModule", None, None, None, ContainsModule(Graph, c, m), 0), g, g)

RemoveChunk ==
    \E c \in Chunks, m \in Modules :
        LET g == ModuleRemoveChunk(Graph, m, c)
        IN /\ nOps < MaxOps
           /\ Step(Call("removeChunk", None, None, None, IsInChunk(Graph, m, c), 0), g, g)

ConnectGroup ==
    \E chunkGroup \in Groups, c \in Chunks :
        LET g == ConnectChunkGroupAndChunk(Graph, chunkGroup, c)
        IN /\ nOps < MaxOps
           /\ Step(Call("connectChunkGroupAndChunk", None, None, None, TRUE, 0), g, g)

\* chunk.entryModule = m, or the designation taken away again
SetEntryModule ==
    \E c \in Chunks, m \in {"m1", None} :
        LET g == [Graph EXCEPT !.em[c] = m]
        IN /\ nOps < MaxOps
           /\ Step(Call("entryModule", None, None, None, TRUE, 0), g, g)

\* a.integrate(b) for two distinct chunks
IntegrateOp ==
    \E a \in Chunks : \E b \in Chunks \ {a} :
        LET r == Integrate(Graph, a, b)
        IN /\ nOps < MaxOps
           /\ Step(Call("integrate", a, b, None, r.ret, 0), Graph, r.g)

NextFacade == Connect \/ Disconnect \/ Move \/ RemoveModule \/ RemoveChunk

SpecFacade == Init /\ [][NextFacade]_vars

Next == Connect \/ ConnectGroup \/ SetEntryModule \/ IntegrateOp

Spec == Init /\ [][Next]_vars

\* c.remove()
RemoveOp ==
    \E c \in Chunks :
        LET g == Remove(Graph, c)
        IN /\ nOps < MaxOps
           /\ Step(Call("remove", c, None, None, TRUE, 0), Graph, g)

NextRemove == Connect \/ Disconnect \/ Move \/ ConnectGroup \/ RemoveOp

\* chunks built and reshaped through the facade, and removed
SpecRemove == Init /\ [][NextRemove]_vars

\* c.addModule(m), called on the chunk itself
AddModuleOp ==
    \E c \in Chunks, m \in Modules :
        LET g == ChunkAddModule(Graph, c, m)
        IN /\ nOps < MaxOps
           /\ Step(Call("addModule", c, m, None, ~ContainsModule(Graph, c, m), 0), Graph, g)

\* a.integrate(b) for any two chunks, a itself included
IntegrateAnyOp ==
    \E a \in Chunks, b \in Chunks :
        LET r == Integrate(Graph, a, b)
        IN /\ nOps < MaxOps
           /\ Step(Call("integrate", a, b, None, r.ret, 0), Graph, r.g)

\* c.modulesSize()
ModulesSizeOp ==
    \E c \in Chunks :
        LET r == GetFromUnorderedCache(Graph, c)
        IN /\ nOps < MaxOps
           /\ Step(Call("modulesSize", c, None, None, TRUE, r.val), Graph, r.g)

NextSize ==
    AddModuleOp \/ RemoveModule \/ Move \/ IntegrateAnyOp \/ RemoveOp \/ ModulesSizeOp

\* module sets mutated in every way, with the size aggregate read in between
SpecSize == Init /\ [][NextSize]_vars

\* c.split(newChunk)
SplitOp ==
    \E c \in Chunks, newChunk \in Chunks :
        LET g == Split(Graph, c, newChunk)
        IN /\ nOps < MaxOps
           /\ Step(Call("split", c, newChunk, None, TRUE, 0), Graph, g)

NextSplit == Connect \/ ConnectGroup \/ SplitOp

\* chunks built through the facade, and split
SpecSplit == Init /\ [][NextSplit]_vars

NextIntegrateAny == Connect \/ ConnectGroup \/ IntegrateAnyOp

\* chunks built through the facade, and integrated into any chunk
SpecIntegrateAny == Init /\ [][NextIntegrateAny]_vars

\* this._chunks.clear() in Module.disconnect and Module.unseal
ModuleClearChunks(g, m) == [g EXCEPT !.mc[m] = {}]

\* One reset of module m: `metaAfter` is the buildMeta it leaves m1 with, and
\* `full` tells disconnect (reasons and usage reset too) from unseal.
ResetStep(call, m, full, metaAfter) ==
    /\ nOps' = nOps + 1
    /\ last' = call
    /\ pre' = Graph
    /\ Install(ModuleClearChunks(Graph, m))
    /\ reasons' = IF full THEN [reasons EXCEPT ![m] = <<>>] ELSE reasons
    /\ used' = IF full /\ m = "m1" THEN "null" ELSE used
    /\ usedExports' = IF full /\ m = "m1" THEN NotArray("null") ELSE usedExports
    /\ buildMeta' = IF m = "m1" THEN metaAfter ELSE buildMeta
    /\ UNCHANGED <<parents, initial, walk>>

\* m.disconnect()
ModuleDisconnectOp ==
    \E m \in Modules :
        /\ nOps < MaxOps
        /\ ResetStep(Call("disconnect", m, None, None, TRUE, 0), m, TRUE, buildMeta)

\* m.unseal()
ModuleUnsealOp ==
    \E m \in Modules :
        /\ nOps < MaxOps
        /\ ResetStep(Call("unseal", m, None, None, TRUE, 0), m, FALSE, buildMeta)

\* m.unbuild()
ModuleUnbuildOp ==
    \E m \in Modules :
        /\ nOps < MaxOps
        /\ ResetStep(Call("unbuild", m, None, None, TRUE, 0), m, TRUE, UndefinedBuildMeta)

NextReset == Connect \/ ModuleDisconnectOp \/ ModuleUnsealOp \/ ModuleUnbuildOp

\* modules connected through the facade, and reset
SpecReset == Init /\ [][NextReset]_vars

NextGroups == ConnectGroup \/ IntegrateOp \/ SplitOp \/ RemoveOp

\* chunks put into groups through the facade, then integrated, split and removed
SpecGroups == Init /\ [][NextGroups]_vars

\* ------------------------------------------------ queries on drawn graphs

\* every insertion order of every subset of S
OrderedSubsets(S) ==
    {s \in UNION {[1..n -> S] : n \in 0..Cardinality(S)} :
        \A i, j \in 1..Len(s) : i # j => s[i] # s[j]}

\* the graph with the given module sets, both sides of every edge set
WithModules(g, cm) ==
    [g EXCEPT !.cm = cm,
              !.mc = [m \in Modules |-> {c \in Chunks : SetHas(cm[c], m)}]]

InitWith(g, par, ini, rs) ==
    /\ chunkModules = g.cm
    /\ moduleChunks = g.mc
    /\ chunkGroups = g.cg
    /\ groupChunks = g.gc
    /\ name = g.nm
    /\ entryModule = g.em
    /\ modulesSizeCache = g.sz
    /\ parents = par
    /\ initial = ini
    /\ reasons = rs
    /\ used = NoUsage.used
    /\ usedExports = NoUsage.usedExports
    /\ buildMeta = NoUsage.buildMeta
    /\ walk = NoWalk
    /\ last = Call("init", None, None, None, TRUE, 0)
    /\ pre = g
    /\ nOps = 0

NoParents == [g \in Groups |-> {}]
NoReasons == [m \in Modules |-> <<>>]

\* chunks whose modules were added in any order
InitCompare ==
    \E cm \in [Chunks -> OrderedSubsets(Modules)] :
        InitWith(WithModules(EmptyGraph, cm), NoParents, [g \in Groups |-> FALSE], NoReasons)

\* a.compareTo(b)
CompareToOp ==
    \E a \in Chunks, b \in Chunks :
        LET r == CompareTo(Graph, a, b)
        IN /\ nOps < MaxQueries
           /\ Step(Call("compareTo", a, b, None, TRUE, r.val), Graph, r.g)

SpecCompare == InitCompare /\ [][CompareToOp]_vars

\* parent links that only go from a group to later groups: every shape of an
\* acyclic hierarchy over the groups
Hierarchies ==
    {par \in [Groups -> SUBSET Groups] :
        /\ par["g3"] = {}
        /\ par["g2"] \subseteq {"g3"}
        /\ par["g1"] \subseteq {"g2", "g3"}}

\* the graph with each chunk connected to the group chosen for it, if any
WithGroups(g, grp) ==
    [g EXCEPT !.cg = [c \in Chunks |-> IF grp[c] = None THEN <<>> ELSE <<grp[c]>>],
              !.gc = [h \in Groups |-> {c \in Chunks : grp[c] = h}]]

\* the ways to put c1 and c2 each into at most one group
GroupChoices == {grp \in [Chunks -> Groups \cup {None}] : grp["c3"] = None}

\* a sealed graph: any hierarchy whose roots are the initial groups, c1 and c2
\* each in at most one group, c1 with any modules in any order
InitMaps ==
    \E par \in Hierarchies, grp \in GroupChoices,
       mods1 \in OrderedSubsets(Modules), mods2 \in {<<>>, <<"m3">>} :
        InitWith(WithModules(WithGroups(EmptyGraph, grp),
                             [c \in Chunks |-> CASE c = "c1" -> mods1
                                                 [] c = "c2" -> mods2
                                                 [] OTHER -> <<>>]),
                 par, [h \in Groups |-> par[h] = {}], NoReasons)

\* this.getChunkModuleMaps(includeInitial, filterFn)
GetChunkModuleMapsOp ==
    \E this \in {"c1", "c2"}, includeInitial \in BOOLEAN,
       passing \in {Modules, {"m1", "m2"}, {"m3"}, {}} :
        /\ nOps < MaxQueries
        /\ Step(Call("getChunkModuleMaps", this, includeInitial, passing, TRUE,
                     GetChunkModuleMaps(Graph, this, includeInitial, passing)),
                Graph, Graph)

SpecMaps == InitMaps /\ [][GetChunkModuleMapsOp]_vars

\* the graph with each chunk connected to the set of groups chosen for it
WithGroupSets(g, grps) ==
    [g EXCEPT !.cg = [c \in Chunks |-> SetToSeq(grps[c])],
              !.gc = [h \in Groups |-> {c \in Chunks : h \in grps[c]}]]

\* a sealed graph: any hierarchy whose roots are the initial groups, every
\* chunk in any set of groups
InitChunkMaps ==
    \E par \in Hierarchies, grps \in [Chunks -> SUBSET Groups] :
        InitWith(WithGroupSets(EmptyGraph, grps), par,
                 [h \in Groups |-> par[h] = {}], NoReasons)

\* this.getChunkMaps(includeInitial, realHash)
GetChunkMapsOp ==
    \E this \in Chunks, includeInitial \in BOOLEAN, realHash \in BOOLEAN :
        /\ nOps < MaxQueries
        /\ Step(Call("getChunkMaps", this, includeInitial, realHash, TRUE,
                     GetChunkMaps(Graph, this, includeInitial, realHash)),
                Graph, Graph)

SpecChunkMaps == InitChunkMaps /\ [][GetChunkMapsOp]_vars

\* the hierarchy of Init, c1 and c2 each in at most one group, with some
\* modules of their own and one in common, and with or without an entry module
InitPreview ==
    \E grp \in GroupChoices,
       mods1 \in {<<>>, <<"m1">>, <<"m1", "m2">>},
       mods2 \in {<<>>, <<"m2">>, <<"m3", "m2">>},
       entry \in [{"c1", "c2"} -> {"m1", None}] :
        InitWith([WithModules(WithGroups(EmptyGraph, grp),
                              [c \in Chunks |-> CASE c = "c1" -> mods1
                                                  [] c = "c2" -> mods2
                                                  [] OTHER -> <<>>])
                     EXCEPT !.em = [c \in Chunks |-> IF c = "c3" THEN None ELSE entry[c]]],
                 [g \in Groups |-> IF g = "g2" THEN {"g1"} ELSE {}],
                 [g \in Groups |-> g # "g2"], NoReasons)

\* a.integrate(b) on a drawn graph
IntegrateDrawnOp ==
    \E a \in {"c1", "c2"} : \E b \in {"c1", "c2"} \ {a} :
        LET r == Integrate(Graph, a, b)
        IN /\ nOps < MaxQueries
           /\ Step(Call("integrate", a, b, None, r.ret, 0), Graph, r.g)

\* a.integratedSize(b, options) on a drawn graph; it reads a.modulesSize()
\* once it knows the chunks can be integrated
IntegratedSizeOp ==
    \E a \in {"c1", "c2"} : \E b \in {"c1", "c2"} \ {a} : \E options \in OptionsSet :
        LET r == IntegratedSize(Graph, a, b, options)
        IN /\ nOps < MaxQueries
           /\ Step(Call("integratedSize", a, b, None, r.isNumber, r.value), Graph,
                   IF r.isNumber THEN GetFromUnorderedCache(Graph, a).g ELSE Graph)

NextPreview == IntegrateDrawnOp \/ IntegratedSizeOp

SpecPreview == InitPreview /\ [][NextPreview]_vars

\* any hierarchy with any groups initial, c1 and c2 each in at most one group,
\* m1 in any of c1 and c2, and m1 included because of m2, which is in c1 or c2
InitAccess ==
    \E par \in Hierarchies, ini \in [Groups -> BOOLEAN], grp \in GroupChoices,
       in1 \in SUBSET {"c1", "c2"}, origin \in {"c1", "c2"} :
        InitWith(WithModules(WithGroups(EmptyGraph, grp),
                             [c \in Chunks |->
                                 (IF c \in in1 THEN <<"m1">> ELSE <<>>)
                                 \o (IF c = origin THEN <<"m2">> ELSE <<>>)]),
                 par, ini, [m \in Modules |-> IF m = "m1" THEN <<"m2">> ELSE <<>>])

\* m1.isAccessibleInChunkGroup(chunkGroup, ignoreChunk)
IsAccessibleInChunkGroupOp ==
    \E chunkGroup \in Groups, ignoreChunk \in Chunks \cup {None} :
        /\ nOps < MaxQueries
        /\ Step(Call("isAccessibleInChunkGroup", "m1", chunkGroup, ignoreChunk,
                     IsAccessibleInChunkGroup(Graph, "m1", chunkGroup, ignoreChunk), 0),
                Graph, Graph)

\* m1.hasReasonForChunk(chunk)
HasReasonForChunkOp ==
    \E chunk \in Chunks :
        /\ nOps < MaxQueries
        /\ Step(Call("hasReasonForChunk", "m1", chunk, None,
                     HasReasonForChunk(Graph, "m1", chunk) = "true",
                     HasReasonForChunk(Graph, "m1", chunk)),
                Graph, Graph)

NextAccess == IsAccessibleInChunkGroupOp \/ HasReasonForChunkOp

SpecAccess == InitAccess /\ [][NextAccess]_vars

\* the export names asked about and listed
ExportNames == {"a", "b", "default"}

\* a module after the usage pass: used is null, false or true; usedExports is
\* null, false, true or an array of names; buildMeta is undefined, or has
\* providedExports an array of names or not an array and exportsType set or not
InitUsage ==
    \E u \in {"null", "false", "true"},
       ue \in {NotArray("null"), NotArray("false"), NotArray("true")}
              \cup {ArrayOf(s) : s \in OrderedSubsets(ExportNames)},
       meta \in {UndefinedBuildMeta}
                \cup [defined : {TRUE}, exportsType : {"namespace", "named", "none"},
                      providedExports : {NotArray("true")}
                          \cup {ArrayOf(s) : s \in OrderedSubsets({"a", "b"})}] :
        /\ chunkModules = EmptyGraph.cm
        /\ moduleChunks = EmptyGraph.mc
        /\ chunkGroups = EmptyGraph.cg
        /\ groupChunks = EmptyGraph.gc
        /\ name = EmptyGraph.nm
        /\ entryModule = EmptyGraph.em
        /\ modulesSizeCache = EmptyGraph.sz
        /\ parents = NoParents
        /\ initial = [g \in Groups |-> FALSE]
        /\ reasons = NoReasons
        /\ used = u
        /\ usedExports = ue
        /\ buildMeta = meta
        /\ walk = NoWalk
        /\ last = Call("init", None, None, None, TRUE, 0)
        /\ pre = EmptyGraph
        /\ nOps = 0

\* module.isUsed(exportName)
IsUsedOp ==
    \E exportName \in ExportNames \cup {""} :
        /\ nOps < MaxQueries
        /\ Step(Call("isUsed", exportName, None, None, TRUE,
                     IsUsed(used, usedExports, buildMeta, exportName)),
                Graph, Graph)

SpecUsage == InitUsage /\ [][IsUsedOp]_vars

\* the hierarchy of Init, c1 and c2 each in at most one group, m1 in any of c1
\* and c2, m2 in c1 or c2, and no reasons yet
InitReasons ==
    \E grp \in GroupChoices, in1 \in SUBSET {"c1", "c2"}, origin \in {"c1", "c2"} :
        InitWith(WithModules(WithGroups(EmptyGraph, grp),
                             [c \in Chunks |->
                                 (IF c \in in1 THEN <<"m1">> ELSE <<>>)
                                 \o (IF c = origin THEN <<"m2">> ELSE <<>>)]),
                 [g \in Groups |-> IF g = "g2" THEN {"g1"} ELSE {}],
                 [g \in Groups |-> g # "g2"], NoReasons)

\* m1.addReason(module, dependency, explanation): module is m2, or null for
\* the reason of an entry
AddReasonOp ==
    \E module \in {"m2", None} :
        /\ Len(reasons["m1"]) < MaxReasons
        /\ reasons' = [reasons EXCEPT !["m1"] = Append(@, module)]
        /\ last' = Call("addReason", "m1", module, None, TRUE, 0)
        /\ pre' = Graph
        /\ UNCHANGED <<chunkModules, moduleChunks, chunkGroups, groupChunks, entryModule,
                       modulesSizeCache, name, parents, initial, used, usedExports,
                       buildMeta, walk, nOps>>

NextReasons == AddReasonOp \/ HasReasonForChunkOp

SpecReasons == InitReasons /\ [][NextReasons]_vars

\* ------------------------------------------- traversals, one step at a time

\* fn(a, b, c) has built its queue and is about to iterate it; a, b and c are
\* the objects the call is about, its flags and filters have a field each
StartWalk(fn, a, b, c, queue) ==
    [NoWalk EXCEPT !.fn = fn, !.a = a, !.b = b, !.c = c, !.queue = queue,
                   !.done = FALSE, !.ret = FALSE]

\* for(const chunkGroup of queue): the iterator hands out the next element
NextOfQueue(w) == [w EXCEPT !.i = @ + 1, !.visited = Append(@, w.queue[w.i])]

\* return ret (a boolean) or val (any other value)
ReturnFrom(w, ret, val) == [w EXCEPT !.done = TRUE, !.ret = ret, !.val = val]

\* Module.isAccessibleInChunkGroup, lines 210-225: one iteration of the loop,
\* or the return after it. w.a is the module, w.b the group the call was
\* given, w.c ignoreChunk.
IsAccessibleStep(g, w) ==
    IF w.i > Len(w.queue) THEN ReturnFrom(w, TRUE, 0)
    ELSE LET cg == w.queue[w.i]
             v == NextOfQueue(w)
         IN IF \E chunk \in g.gc[cg] : chunk # w.c /\ ContainsModule(g, chunk, w.a)
            THEN v
            ELSE IF initial[w.b] THEN ReturnFrom(v, FALSE, 0)
            ELSE [v EXCEPT !.queue = QueueAddAll(@, SetToSeq(parents[w.b]))]

\* isAvailable (in Chunk.canBeIntegrated), lines 257-263: one iteration of the
\* loop, or the return after it. w.a and w.b are the chunks a and b.
IsAvailableStep(g, w) ==
    IF w.i > Len(w.queue) THEN ReturnFrom(w, TRUE, 0)
    ELSE LET chunkGroup == w.queue[w.i]
             v == NextOfQueue(w)
         IN IF IsInGroup(g, w.a, chunkGroup) THEN v
            ELSE IF initial[chunkGroup] THEN ReturnFrom(v, FALSE, 0)
            ELSE [v EXCEPT !.queue = QueueAddAll(@, SetToSeq(parents[chunkGroup]))]

\* Chunk.canBeIntegrated up to the loop of isAvailable, or to its return when
\* no traversal is needed
CanBeIntegratedEntry(g, this, otherChunk) ==
    IF IsInitial(g, this) # IsInitial(g, otherChunk)
    THEN IF IsInitial(g, this)
         THEN StartWalk("isAvailable", this, otherChunk, None, g.cg[otherChunk])
         ELSE StartWalk("isAvailable", otherChunk, this, None, g.cg[this])
    ELSE ReturnFrom(StartWalk("canBeIntegrated", this, otherChunk, None, <<>>),
                    ~(HasEntryModule(g, this) \/ HasEntryModule(g, otherChunk)), 0)

\* Chunk.getChunkMaps, lines 326-332, and Chunk.getChunkModuleMaps, lines
\* 353-359: one iteration of the collecting loop. w.acc is the Set `chunks`.
CollectIteration(g, w) ==
    LET chunkGroup == w.queue[w.i]
    IN [NextOfQueue(w) EXCEPT
            !.acc = IF w.includeInitial \/ ~initial[chunkGroup]
                    THEN QueueAddAll(@, SetToSeq(g.gc[chunkGroup]))
                    ELSE @,
            !.queue = QueueAddAll(@, SetToSeq(Children(chunkGroup)))]

\* Chunk.getChunkMaps: one iteration, or the maps built after the loop
GetChunkMapsStep(g, w) ==
    IF w.i > Len(w.queue)
    THEN ReturnFrom(w, TRUE, FillChunkMaps(g, w.acc, w.realHash, [hash |-> <<>>, name |-> <<>>]))
    ELSE CollectIteration(g, w)

\* Chunk.getChunkModuleMaps: one iteration, or the id map built after the
\* loop. w.filterFn holds the modules that pass filterFn.
GetChunkModuleMapsStep(g, w) ==
    IF w.i > Len(w.queue)
    THEN ReturnFrom(w, TRUE,
                    [chunk \in {c \in SeqToSet(w.acc) :
                                    PassingIds(g.cm[c], w.filterFn) # <<>>} |->
                        ArraySort(PassingIds(g.cm[chunk], w.filterFn), "default")])
    ELSE CollectIteration(g, w)

\* Chunk.hasModuleInGraph, lines 388-402: one iteration of the loop, or the
\* return after it. w.filterFn holds the modules that pass filterFn,
\* w.filterChunkFn the chunks that pass filterChunkFn (every chunk when no
\* filterChunkFn is given), w.acc is chunksProcessed.
HasModuleInGraphStep(g, w) ==
    IF w.i > Len(w.queue) THEN ReturnFrom(w, FALSE, 0)
    ELSE LET chunkGroup == w.queue[w.i]
             v == NextOfQueue(w)
             fresh == {chunk \in g.gc[chunkGroup] : ~SetHas(w.acc, chunk)}
         IN IF \E chunk \in fresh :
                    /\ chunk \in w.filterChunkFn
                    /\ \E module \in SeqToSet(g.cm[chunk]) : module \in w.filterFn
            THEN ReturnFrom(v, TRUE, 0)
            ELSE [v EXCEPT !.acc = QueueAddAll(@, SetToSeq(fresh)),
                           !.queue = QueueAddAll(@, SetToSeq(Children(chunkGroup)))]

\* a call is made: it runs until its loop
Enter(w) ==
    /\ walk' = w
    /\ nOps' = nOps + 1
    /\ UNCHANGED <<chunkModules, moduleChunks, chunkGroups, groupChunks, entryModule,
                   modulesSizeCache, name, parents, initial, reasons, used, usedExports,
                   buildMeta, last, pre>>

\* the running call goes on by one iteration, or returns
Advance(w) ==
    /\ walk' = w
    /\ UNCHANGED <<chunkModules, moduleChunks, chunkGroups, groupChunks, entryModule,
                   modulesSizeCache, name, parents, initial, reasons, used, usedExports,
                   buildMeta, last, pre, nOps>>

\* m1.isAccessibleInChunkGroup(chunkGroup, ignoreChunk)
IsAccessibleInChunkGroupCall ==
    \E chunkGroup \in Groups, ignoreChunk \in {"c1", None} :
        /\ walk.done /\ nOps < MaxQueries
        /\ Enter(StartWalk("isAccessibleInChunkGroup", "m1", chunkGroup, ignoreChunk,
                           <<chunkGroup>>))

IsAccessibleInChunkGroupIterate ==
    /\ walk.fn = "isAccessibleInChunkGroup" /\ ~walk.done
    /\ Advance(IsAccessibleStep(Graph, walk))

\* this.canBeIntegrated(otherChunk)
CanBeIntegratedCall ==
    \E this \in {"c1", "c2"} : \E otherChunk \in {"c1", "c2"} \ {this} :
        /\ walk.done /\ nOps < MaxQueries
        /\ Enter(CanBeIntegratedEntry(Graph, this, otherChunk))

IsAvailableIterate ==
    /\ walk.fn = "isAvailable" /\ ~walk.done
    /\ Advance(IsAvailableStep(Graph, walk))

\* this.getChunkMaps(includeInitial, realHash)
GetChunkMapsCall ==
    \E this \in {"c1", "c2"}, includeInitial \in BOOLEAN :
        /\ walk.done /\ nOps < MaxQueries
        /\ Enter([StartWalk("getChunkMaps", this, None, None, Graph.cg[this])
                     EXCEPT !.includeInitial = includeInitial, !.realHash = TRUE])

GetChunkMapsIterate ==
    /\ walk.fn = "getChunkMaps" /\ ~walk.done
    /\ Advance(GetChunkMapsStep(Graph, walk))

\* this.getChunkModuleMaps(includeInitial, filterFn)
GetChunkModuleMapsCall ==
    \E this \in {"c1", "c2"}, includeInitial \in BOOLEAN :
        /\ walk.done /\ nOps < MaxQueries
        /\ Enter([StartWalk("getChunkModuleMaps", this, None, None, Graph.cg[this])
                     EXCEPT !.includeInitial = includeInitial, !.filterFn = Modules])

GetChunkModuleMapsIterate ==
    /\ walk.fn = "getChunkModuleMaps" /\ ~walk.done
    /\ Advance(GetChunkModuleMapsStep(Graph, walk))

\* this.hasModuleInGraph(filterFn, filterChunkFn)
HasModuleInGraphCall ==
    \E this \in {"c1", "c2"}, passing \in {{"m2"}, {"m3"}} :
        /\ walk.done /\ nOps < MaxQueries
        /\ Enter([StartWalk("hasModuleInGraph", this, None, None, Graph.cg[this])
                     EXCEPT !.filterFn = passing, !.filterChunkFn = Chunks])

HasModuleInGraphIterate ==
    /\ walk.fn = "hasModuleInGraph" /\ ~walk.done
    /\ Advance(HasModuleInGraphStep(Graph, walk))

\* every parent relation over the groups, cycles and self-loops included
GroupGraphs == [Groups -> SUBSET Groups]

\* any group graph with the entry point g1 the only initial group; c1 with m1
\* in g1; c2 with m2 in g2, or in g2 and g3
InitWalk ==
    \E par \in GroupGraphs, groups2 \in {{"g2"}, {"g2", "g3"}} :
        InitWith(WithModules(WithGroupSets(EmptyGraph,
                                           [c \in Chunks |-> CASE c = "c1" -> {"g1"}
                                                               [] c = "c2" -> groups2
                                                               [] OTHER -> {}]),
                             [c \in Chunks |-> CASE c = "c1" -> <<"m1">>
                                                 [] c = "c2" -> <<"m2">>
                                                 [] OTHER -> <<>>]),
                 par, [h \in Groups |-> h = "g1"], NoReasons)

Running ==
    \/ IsAccessibleInChunkGroupIterate \/ IsAvailableIterate \/ GetChunkMapsIterate
    \/ GetChunkModuleMapsIterate \/ HasModuleInGraphIterate

NextWalk ==
    \/ IsAccessibleInChunkGroupCall \/ CanBeIntegratedCall \/ GetChunkMapsCall
    \/ GetChunkModuleMapsCall \/ HasModuleInGraphCall
    \/ IsAccessibleInChunkGroupIterate \/ IsAvailableIterate \/ GetChunkMapsIterate
    \/ GetChunkModuleMapsIterate \/ HasModuleInGraphIterate

SpecWalk == InitWalk /\ [][NextWalk]_vars

\* a call that has been made keeps running: nothing else runs in its thread
FairWalk == SpecWalk /\ WF_vars(Running)

\* ----------------------------------------------------------------- claims

\* C1: edge symmetry. After any sequence of facade calls from the empty graph,
\* c.containsModule(m) == m.isInChunk(c) for every module m and chunk c.
C1_EdgeSymmetry ==
    \A m \in Modules, c \in Chunks :
        ContainsModule(Graph, c, m) = IsInChunk(Graph, m, c)

\* a cascading removal has just removed an edge, and other edges remain
C1_Witness ==
    /\ last.op \in {"removeModule", "removeChunk"}
    /\ last.ret
    /\ \E m \in Modules, c \in Chunks : ContainsModule(Graph, c, m) /\ IsInChunk(Graph, m, c)

\* C2: integrate is a true merge. After a.integrate(b) returned true for
\* distinct a and b: b is empty, every module that was in b is in a and lists a,
\* every module that was in a is still in a, b has no owning group, and every
\* group that owned b has a as a member, is an owning group of a, and no
\* longer lists b.
C2_IntegrateIsMerge ==
    (last.op = "integrate" /\ last.ret) =>
        LET a == last.a
            b == last.b
        IN /\ IsEmpty(Graph, b)
           /\ \A m \in SeqToSet(pre.cm[b]) :
                  ContainsModule(Graph, a, m) /\ IsInChunk(Graph, m, a)
           /\ \A m \in SeqToSet(pre.cm[a]) : ContainsModule(Graph, a, m)
           /\ chunkGroups[b] = <<>>
           /\ \A chunkGroup \in Groups :
                  (b \in pre.gc[chunkGroup] \/ IsInGroup(pre, b, chunkGroup)) =>
                      /\ a \in groupChunks[chunkGroup]
                      /\ IsInGroup(Graph, a, chunkGroup)
                      /\ b \notin groupChunks[chunkGroup]

\* a successful merge of a chunk that had a module of its own and a group into
\* a chunk that had a module of its own
C2_Witness ==
    /\ last.op = "integrate" /\ last.ret
    /\ pre.cg[last.b] # <<>>
    /\ \E m \in SeqToSet(pre.cm[last.b]) : ~ContainsModule(pre, last.a, m)
    /\ \E m \in SeqToSet(pre.cm[last.a]) : ~ContainsModule(pre, last.b, m)

\* C3: canBeIntegrated refuses whenever either chunk has an entry module,
\* whatever the chunks' initial-ness.
C3_EntryModuleRefuses ==
    \A a \in Chunks, b \in Chunks :
        (HasEntryModule(Graph, a) \/ HasEntryModule(Graph, b)) =>
            ~CanBeIntegrated(Graph, a, b)

\* C6: an infeasible integration is a value and changes nothing. Whenever
\* canBeIntegrated is false, integrate and integratedSize return false and the
\* module sets, group sets, group chunk lists and names are as before.
C6_InfeasibleChangesNothing ==
    (last.op \in {"integrate", "integratedSize"}
        /\ ~CanBeIntegrated(pre, last.a, last.b)) =>
            /\ last.ret = FALSE
            /\ Graph = pre
            /\ \A options \in OptionsSet :
                   ~IntegratedSize(pre, last.a, last.b, options).isNumber

\* a refused merge of a chunk that has modules and a group
C6_Witness ==
    /\ last.op = "integrate" /\ ~last.ret
    /\ ~CanBeIntegrated(pre, last.a, last.b)
    /\ pre.cm[last.b] # <<>>
    /\ pre.cg[last.b] # <<>>

\* C7: integratedSize previews integrate. It mutates nothing, and the number
\* it returns is the value a.size(options) has after a.integrate(b).
C7_IntegratedSizePreviews ==
    /\ last.op = "integratedSize" => [Graph EXCEPT !.sz = pre.sz] = pre
    /\ (last.op = "integrate" /\ last.ret) =>
           \A options \in OptionsSet :
               LET r == IntegratedSize(pre, last.a, last.b, options)
               IN r.isNumber => r.value = Size(Graph, last.a, options)

\* C9: isInitial is true iff the chunk belongs to at least one initial group.
C9_IsInitialIffSomeInitialGroup ==
    \A c \in Chunks :
        IsInitial(Graph, c) = (\E chunkGroup \in SeqToSet(chunkGroups[c]) : initial[chunkGroup])

\* the k-th smallest identifier among the modules of a set
IdentifierAt(S, k) ==
    CHOOSE x \in {ModuleIdentifier(m) : m \in S} :
        Cardinality({y \in {ModuleIdentifier(m) : m \in S} : y < x}) = k - 1

\* compareTo as the claim words it, on the two module sets
CompareAsClaimed(A, B) ==
    IF Cardinality(A) > Cardinality(B) THEN 0 - 1
    ELSE IF Cardinality(A) < Cardinality(B) THEN 1
    ELSE LET differing == {k \in 1..Cardinality(A) : IdentifierAt(A, k) # IdentifierAt(B, k)}
         IN IF differing = {} THEN 0
            ELSE LET k == CHOOSE d \in differing : \A e \in differing : d <= e
                 IN IF IdentifierAt(A, k) > IdentifierAt(B, k) THEN 0 - 1 ELSE 1

\* C10: compareTo is a deterministic total order. More modules sorts first;
\* on a tie the first differing position of the identifier-sorted sequences
\* decides, the larger identifier first; 0 iff the identifier sequences are the
\* same; a.compareTo(b) = -b.compareTo(a); the relation is transitive; and the
\* result does not depend on the order in which the modules were inserted.
C10_CompareToTotalOrder ==
    /\ \A a \in Chunks, b \in Chunks :
           LET r == CompareTo(Graph, a, b).val
               A == SeqToSet(chunkModules[a])
               B == SeqToSet(chunkModules[b])
           IN /\ r = CompareAsClaimed(A, B)
              /\ (r = 0) <=> ({ModuleIdentifier(m) : m \in A} = {ModuleIdentifier(m) : m \in B})
              /\ r = 0 - CompareTo(Graph, b, a).val
              /\ \A c \in Chunks :
                     (r <= 0 /\ CompareTo(Graph, b, c).val <= 0) => CompareTo(Graph, a, c).val <= 0
              /\ \A c \in Chunks, d \in Chunks :
                     (SeqToSet(chunkModules[c]) = A /\ SeqToSet(chunkModules[d]) = B) =>
                         CompareTo(Graph, c, d).val = r
    /\ last.op = "compareTo" =>
           last.val = CompareAsClaimed(SeqToSet(pre.cm[last.a]), SeqToSet(pre.cm[last.b]))

\* a tie in size decided by the identifiers, on module sets that were not
\* inserted in identifier order
C10_Witness ==
    /\ last.op = "compareTo"
    /\ last.val = 1
    /\ Len(pre.cm[last.a]) = 2 /\ Len(pre.cm[last.b]) = 2
    /\ ModuleIdentifier(pre.cm[last.a][1]) > ModuleIdentifier(pre.cm[last.a][2])
    /\ ModuleIdentifier(pre.cm[last.b][1]) > ModuleIdentifier(pre.cm[last.b][2])
    /\ chunkModules[last.a] # pre.cm[last.a]

\* accessibility as the claim defines it, over the group x being visited
RECURSIVE Acc(_, _, _, _)
Acc(g, module, x, ignoreChunk) ==
    \/ \E chunk \in g.gc[x] \ {ignoreChunk} : ContainsModule(g, chunk, module)
    \/ /\ ~initial[x]
       /\ \A p \in parents[x] : Acc(g, module, p, ignoreChunk)

\* C4: on an acyclic group graph, m.isAccessibleInChunkGroup(g, ignoreChunk)
\* is true iff acc(g), where acc(x) = (some chunk of x other than ignoreChunk
\* contains m) or (x is not initial and acc(p) for every parent p of x).
C4_AccessibleIffAcc ==
    last.op = "isAccessibleInChunkGroup" =>
        last.ret = Acc(Graph, last.a, last.b, last.c)

\* C5: m.hasReasonForChunk(c) is true iff some reason's originating module has
\* a chunk o with a group in which m is not accessible once c is ignored in
\* every group's chunk list.
C5_HasReasonIffInaccessibleWithout ==
    last.op = "hasReasonForChunk" =>
        last.ret = \E i \in 1..Len(reasons[last.a]) :
                       \E originChunk \in moduleChunks[reasons[last.a][i]] :
                           \E chunkGroup \in SeqToSet(chunkGroups[originChunk]) :
                               ~Acc(Graph, last.a, chunkGroup, last.b)

\* the groups reached from a set of groups over zero or more child links
RECURSIVE Descendants(_)
Descendants(S) ==
    LET T == S \cup UNION {Children(h) : h \in S}
    IN IF T = S THEN S ELSE Descendants(T)

\* C8: getChunkModuleMaps returns, for every collected chunk with a module
\* that passes filterFn, exactly those modules' ids in ascending numeric order,
\* and no key for a chunk without a passing module.
C8_ModuleIdsSortedAscending ==
    last.op = "getChunkModuleMaps" =>
        LET map == last.val
            collected == {c \in Chunks :
                             \E h \in Descendants(SeqToSet(chunkGroups[last.a])) :
                                 (last.b \/ ~initial[h]) /\ c \in groupChunks[h]}
            ids(c) == {ModuleId(m) : m \in SeqToSet(chunkModules[c]) \cap last.c}
        IN /\ DOMAIN map = {c \in collected : ids(c) # {}}
           /\ \A c \in DOMAIN map :
                  /\ SeqToSet(map[c]) = ids(c)
                  /\ Len(map[c]) = Cardinality(ids(c))
                  /\ \A i, k \in 1..Len(map[c]) : i < k => map[c][i] < map[c][k]

\* C11: after c.remove() on a chunk built through the facade, c has no member
\* module, no module lists c, and no group that owned c still has it as a
\* member chunk; the module sets and owning groups of every other chunk, and
\* every group's other member chunks, are as before.
C11_RemoveDetaches ==
    last.op = "remove" =>
        LET c == last.a
        IN /\ IsEmpty(Graph, c)
           /\ \A m \in Modules : ~IsInChunk(Graph, m, c)
           /\ \A h \in Groups :
                  (IsInGroup(pre, c, h) \/ c \in pre.gc[h]) => c \notin groupChunks[h]
           /\ \A d \in Chunks \ {c} :
                  /\ chunkModules[d] = pre.cm[d]
                  /\ chunkGroups[d] = pre.cg[d]
                  /\ \A m \in Modules : IsInChunk(Graph, m, d) = IsInChunk(pre, m, d)
                  /\ \A h \in Groups : (d \in groupChunks[h]) = (d \in pre.gc[h])

\* the removed chunk was a member of a group and shared a module with
\* another chunk
C11_Witness ==
    /\ last.op = "remove"
    /\ \E h \in Groups : IsInGroup(pre, last.a, h) /\ last.a \in pre.gc[h]
    /\ \E m \in SeqToSet(pre.cm[last.a]) :
           \E d \in Chunks \ {last.a} : ContainsModule(Graph, d, m)

\* the sum of size() over a set of modules
RECURSIVE SizeOfSet(_)
SizeOfSet(S) ==
    IF S = {} THEN 0
    ELSE LET m == CHOOSE x \in S : TRUE IN ModuleSize(m) + SizeOfSet(S \ {m})

\* C12: cache coherence of the size aggregate. After any sequence of
\* addModule / removeModule / moveModule / integrate / remove calls,
\* c.modulesSize() is the sum of size() over the modules c contains now, and a
\* second read with no mutation in between returns the same value.
C12_ModulesSizeNeverStale ==
    /\ \A c \in Chunks :
           LET first == GetFromUnorderedCache(Graph, c)
           IN /\ first.val = SizeOfSet(SeqToSet(chunkModules[c]))
              /\ GetFromUnorderedCache(first.g, c).val = first.val
    /\ last.op = "modulesSize" =>
           last.val = SizeOfSet(SeqToSet(chunkModules[last.a]))

\* a module has just been added to a chunk whose size had been read, so that
\* the memoized sum is no longer the sum of the chunk's modules
C12_Witness ==
    /\ last.op = "addModule" /\ last.ret
    /\ pre.sz[last.a] # <<>>
    /\ pre.sz[last.a][1] # SizeOfSet(SeqToSet(chunkModules[last.a]))

\* C13: getChunkMaps collects exactly the chunks of the groups reached from
\* this chunk's groups over zero or more child links, leaving out the chunks
\* of initial groups when includeInitial is false (their children are still
\* visited). The hash map has one key per collected chunk id, with chunk.hash
\* if realHash and chunk.renderedHash otherwise; the name map has a key for a
\* collected chunk iff the chunk has a name.
C13_ChunkMapsOfReachableChunks ==
    last.op = "getChunkMaps" =>
        LET collected == {c \in Chunks :
                             \E h \in Descendants(SeqToSet(chunkGroups[last.a])) :
                                 (last.b \/ ~initial[h]) /\ c \in groupChunks[h]}
        IN /\ DOMAIN last.val.hash = {ChunkId(c) : c \in collected}
           /\ DOMAIN last.val.name = {ChunkId(c) : c \in {d \in collected : name[d] # NoName}}
           /\ \A c \in collected :
                  /\ last.val.hash[ChunkId(c)] =
                         (IF last.c THEN ChunkHash(c) ELSE ChunkRenderedHash(c))
                  /\ name[c] # NoName => last.val.name[ChunkId(c)] = name[c]

\* without includeInitial, called on a chunk of an initial group: a chunk of
\* that group is left out, a chunk below it is collected, and a collected
\* chunk has no name
C13_Witness ==
    /\ last.op = "getChunkMaps" /\ ~last.b
    /\ \E h \in SeqToSet(chunkGroups[last.a]) :
           /\ initial[h]
           /\ \E c \in groupChunks[h] : ChunkId(c) \notin DOMAIN last.val.hash
           /\ \E k \in Children(h) : \E c \in groupChunks[k] : ChunkId(c) \in DOMAIN last.val.hash
    /\ DOMAIN last.val.name # DOMAIN last.val.hash

\* C14: c.split(n) makes n a member chunk of every group owning c and
\* registers each of those groups with n, and n gains no other group; the
\* module sets of all chunks, every module's chunk set and the owning groups
\* of c are as before.
C14_SplitCopiesGroupsOnly ==
    last.op = "split" =>
        LET c == last.a
            n == last.b
        IN /\ \A h \in Groups :
                  IsInGroup(pre, c, h) => n \in groupChunks[h] /\ IsInGroup(Graph, n, h)
           /\ \A h \in Groups :
                  /\ IsInGroup(Graph, n, h) => IsInGroup(pre, n, h) \/ IsInGroup(pre, c, h)
                  /\ n \in groupChunks[h] => n \in pre.gc[h] \/ IsInGroup(pre, c, h)
           /\ chunkModules = pre.cm
           /\ moduleChunks = pre.mc
           /\ chunkGroups[c] = pre.cg[c]

\* a chunk with a module and a group was split into another chunk that had a
\* group of its own
C14_Witness ==
    /\ last.op = "split" /\ last.a # last.b
    /\ pre.cm[last.a] # <<>>
    /\ \E h \in Groups : IsInGroup(pre, last.a, h) /\ ~IsInGroup(pre, last.b, h)
    /\ \E h \in Groups : IsInGroup(pre, last.b, h) /\ ~IsInGroup(pre, last.a, h)

\* the module of the export mangling scenario
ManglingScenario ==
    /\ buildMeta.exportsType = "namespace"
    /\ buildMeta.providedExports = ArrayOf(<<"a", "b">>)
    /\ used = "true"
    /\ usedExports = ArrayOf(<<"b">>)

\* C15 as claimed: in the scenario, isUsed("b") returns the identifier of
\* index 1, the position of "b" in providedExports, and isUsed("a") is false.
C15_MangledByProvidedPosition ==
    (last.op = "isUsed" /\ ManglingScenario) =>
        /\ last.a = "b" => last.val = NumberToIdentifer(1)
        /\ last.a = "a" => last.val = Returned("false", "", 0)

\* C15 as amended: in the scenario, isUsed("b") returns the identifier of
\* index 0, the position of "b" in usedExports, which is not the name "b",
\* and isUsed("a") is false.
C15_MangledByUsedPosition ==
    (last.op = "isUsed" /\ ManglingScenario) =>
        /\ last.a = "b" => /\ last.val = NumberToIdentifer(IndexOf(usedExports.items, "b"))
                           /\ last.val = NumberToIdentifer(0)
                           /\ last.val # Returned("name", "b", 0)
        /\ last.a = "a" => last.val = Returned("false", "", 0)

\* isUsed("b") has been asked of the scenario's module
C15_Witness ==
    /\ last.op = "isUsed" /\ last.a = "b"
    /\ ManglingScenario
    /\ last.val.kind = "identifier"

\* C16: canBeIntegrated is symmetric in outcome: in every graph state,
\* a.canBeIntegrated(b) = b.canBeIntegrated(a) for all chunks a and b; so the
\* answer a.integrate(b) acted on is the answer b would have given for a.
C16_CanBeIntegratedSymmetric ==
    /\ \A a \in Chunks, b \in Chunks :
           CanBeIntegrated(Graph, a, b) = CanBeIntegrated(Graph, b, a)
    /\ last.op = "integrate" => last.ret = CanBeIntegrated(pre, last.b, last.a)

\* an initial chunk has integrated a chunk that was not initial, both having
\* groups: the availability walk decided
C16_Witness ==
    /\ last.op = "integrate" /\ last.ret
    /\ IsInitial(pre, last.a) /\ ~IsInitial(pre, last.b)
    /\ pre.cg[last.b] # <<>>

\* C17: integrate preserves module-chunk edge symmetry for every pair of
\* arguments, a.integrate(a) included: after an integrate that returned true,
\* c.containsModule(m) = m.isInChunk(c) for every module m and chunk c.
C17_IntegrateKeepsEdgeSymmetry ==
    (last.op = "integrate" /\ last.ret) =>
        \A m \in Modules, c \in Chunks :
            ContainsModule(Graph, c, m) = IsInChunk(Graph, m, c)

\* C18: a module reset keeps the graph symmetric. After m.disconnect(),
\* m.unseal() or m.unbuild(), m is in no chunk, no chunk contains m, and
\* c.containsModule(x) = x.isInChunk(c) holds for all modules and chunks.
\* (debugId is assigned in the constructor only.)
C18_ResetKeepsEdgeSymmetry ==
    last.op \in {"disconnect", "unseal", "unbuild"} =>
        /\ moduleChunks[last.a] = {}
        /\ \A c \in Chunks : ~ContainsModule(Graph, c, last.a)
        /\ \A x \in Modules, c \in Chunks :
               ContainsModule(Graph, c, x) = IsInChunk(Graph, x, c)

\* C19: chunk-group edge symmetry. From a state where c is a member chunk of
\* g iff c.isInGroup(g), the equivalence holds for every chunk and group after
\* any sequence of integrate, split and remove calls.
C19_GroupEdgeSymmetry ==
    \A c \in Chunks, h \in Groups :
        (c \in groupChunks[h]) = IsInGroup(Graph, c, h)

\* C20: hasReasonForChunk never fails. For every module, one with a reason
\* without originating module included, m.hasReasonForChunk(c) returns a
\* boolean, and it is the boolean the reasons that have an originating module
\* give.
C20_HasReasonNeverThrows ==
    last.op = "hasReasonForChunk" =>
        /\ last.val \in {"true", "false"}
        /\ last.val = HasReasonLoop(Graph, last.a, last.b,
                                    SelectSeq(reasons[last.a], LAMBDA r : r # None), 1)

\* C21: every group traversal terminates and takes each group from its queue
\* at most once, on any group graph, cyclic ones included: a running
\* isAccessibleInChunkGroup, isAvailable, getChunkMaps, getChunkModuleMaps or
\* hasModuleInGraph has visited no group twice, so at most as many groups as
\* exist, and every call that was made returns.
C21_TraversalsTerminate ==
    /\ [](/\ \A i, j \in 1..Len(walk.visited) : i # j => walk.visited[i] # walk.visited[j]
          /\ Len(walk.visited) <= Cardinality(Groups))
    /\ (~walk.done ~> walk.done)

\* a traversal has returned after visiting every group of a graph in which
\* two of the groups are each other's parent
C21_Witness ==
    /\ walk.done
    /\ walk.fn \in {"isAccessibleInChunkGroup", "isAvailable", "getChunkMaps",
                   "getChunkModuleMaps", "hasModuleInGraph"}
    /\ Len(walk.visited) = Cardinality(Groups)
    /\ \E x \in Groups : \E y \in Groups \ {x} : x \in parents[y] /\ y \in parents[x]
====
